---------------------------- MODULE Spec2Model ----------------------------
(***************************************************************************)
(* Subscription capacity manager (scanner_coordinator.py) and the          *)
(* freshness / fallback market-data bus (market_data.py) of QTrade v15.    *)
(*                                                                         *)
(* Time is wall-clock seconds counted from Monday 00:00:00 local time of   *)
(* the week the process starts in, so that weekday and time of day are     *)
(* derived from `now` the way datetime.now() gives them.                   *)
(***************************************************************************)
EXTENDS Integers, Sequences, FiniteSets, TLC

(***************************************************************************)
(* Program constants (config.py and literals of the code).                 *)
(***************************************************************************)
PRIORITY_POSITION == 100
PRIORITY_FUTURES == 90
PRIORITY_OPTIONS == 60
PRIORITY_SCANNER == 25
OPTIONS_SLOTS == 10
SCANNER_MIN_SLOTS == 10
SCANNER_MAX_SLOTS == 30
SCANNER_INTERVAL_SECONDS == 60
OPTIONS_SCAN_INTERVAL == 120
CLEANUP_INTERVAL == 60
STALE_THRESHOLD == 600
SLEEP_SECONDS == 10
JOIN_TIMEOUT == 5
FUTURES_SLOTS == 7
SCANNER_BUFFER == 5
UNIVERSE_UPDATE_COOLDOWN == 10
MINOR_CHANGE == 3
FALLBACK_TRIGGER_SECONDS == 5
FALLBACK_COOLDOWN_SECONDS == 300
HISTORICAL_FALLBACK_ENABLED == TRUE
PREMARKET_START == <<4, 0>>
REGULAR_START == <<9, 30>>
REGULAR_END == <<16, 0>>
AFTERHOURS_END == <<20, 0>>

(***************************************************************************)
(* Bounds of the model.  Capacity stands for self._capacity                *)
(* (IB_MAX_SUBSCRIPTIONS, 50 in config.py) scaled to the small universe    *)
(* of instruments below; FUTURES_WATCHLIST is scaled with it.              *)
(***************************************************************************)
Capacity == 3
MaxElapsed == 640
MaxLoops == 2
MaxCandidates == 3
MaxFaults == 1
MaxAdvances == 3
MaxPairAdvances == 2
MaxChannelLoops == 1

\* Ticks in one open bar, entries a bar history keeps (100 in the program), and
\* clock changes seen by the callers of the bus that keeps bars.
MaxBarTicks == 2
BarHistoryLen == 2
MaxBarAdvances == 1

\* IB_MAX_SUBSCRIPTIONS as update_universe is followed with (50 in the program),
\* and clock changes between its calls.
UniverseSubscriptions == 14
MaxUniverseAdvances == 1

\* Alerts one component raises.
MaxAlerts == 2

\* Loop threads the restarts of the manager are followed up to.
MaxThreads == 2

\* Length of the recent-price window the bus is constructed with (window, 600 by
\* default), scaled; the bus of the instrument pair is constructed with PairWindow.
Window == 2
PairWindow == 1

\* Instruments.  A, B, C, D can be open stock positions; B, C, D can be returned
\* by the stock scanner; NQ is the fixed futures watchlist.
PositionUniverse == {"A", "B", "C", "D"}
ScannerUniverse == {"B", "C", "D"}
FUTURES_WATCHLIST == <<"NQ">>
Symbols == PositionUniverse \cup ScannerUniverse \cup {"NQ"}
NoSym == "-"

\* Monday 09:30:00, the instant the scan-loop runs are started at.
MondayOpen == 9 * 3600 + 30 * 60
\* Instruments the callers of the bus ask prices for: one instrument with every
\* kind of tick, and a pair of instruments to tell their cooldowns apart.
BusUniverse == {"A"}
PairUniverse == {"A", "B"}
\* Amounts by which the clock advances between two calls into the bus.
BusTimeSteps == {1, FALLBACK_TRIGGER_SECONDS, FALLBACK_COOLDOWN_SECONDS - 1}
PairTimeSteps == {FALLBACK_TRIGGER_SECONDS, FALLBACK_COOLDOWN_SECONDS - FALLBACK_TRIGGER_SECONDS}
\* Saturday 12:00:00
SaturdayNoon == 5 * 86400 + 12 * 3600
\* Wall-clock instants the process may be started at: in the regular session
\* and on the weekend.
StartTimes == {MondayOpen, SaturdayNoon}
\* Seconds by which the clock has moved on when market_bus.subscribe returns.
SubscribeSeconds == 1
\* A stall of the scan-loop thread longer than the stale threshold.
Stalls == {STALE_THRESHOLD + 1}

VARIABLES
    now,              \* time.time() / datetime.now()
    t0,               \* the instant the process started at
    subs,             \* SubscriptionManager._subscriptions, in insertion order
    running,          \* SubscriptionManager._running
    pc,               \* position of the scan-loop thread
    todo,             \* rest of the list the current pass iterates over
    loopNow,          \* `now` sampled at the top of the scan-loop iteration
    loops,            \* iterations of the scan loop begun so far
    lastStockScan,    \* SubscriptionManager._last_stock_scan
    lastOptionsScan,  \* SubscriptionManager._last_options_scan
    lastCleanup,      \* SubscriptionManager._last_cleanup
    positions,        \* keys of STATE.positions as _sync_positions last read them
    busSubs,          \* keys of MarketDataBus._subs
    tickers,          \* MarketDataBus.tickers
    lastHistFetch,    \* MarketDataBus._last_hist_fetch
    quote,            \* per instrument, the fields of the provider's Ticker object
    quoteAt,          \* per instrument, when the provider last updated them
    lastReq,          \* per instrument, when reqHistoricalData was last issued (history)
    advances,         \* clock changes observed by the bus callers so far
    call,             \* what the last call into the bus did (history)
    priced,           \* instruments a usable tick or a historical bar ever came for (history)
    history,          \* MarketDataBus.history, oldest price first (empty when absent)
    window,           \* MarketDataBus.window
    status,           \* the main thread inside get_status: position and values read so far
    threads,          \* live threads running _scan_loop
    shutdown,         \* how far the shutdown path of main has come
    atStop,           \* instruments with a record when the shutdown path began (history)
    torn,             \* instruments cancelMktData was called for since then (history)
    currentScanner,   \* current_scanner_symbols of the running stock-scanner pass
    available,        \* `available` of the running stock-scanner pass (0 outside it)
    channels,         \* per instrument, reqMktData requests not cancelled
    faults,           \* provider calls that have failed so far
    ev,               \* what the last step did (history)
    bars,             \* MarketDataBus._bar_data (followed under BarSpec only)
    universe,             \* BreakoutScanner.universe
    lastUniverseSymbols,  \* BreakoutScanner._last_universe_symbols
    lastUniverseUpdate,   \* BreakoutScanner._last_universe_update
    lastScanTime,         \* ProfessionalScanner._last_scan_time
    alerts,               \* STATE.alerts
    writers               \* per component, how far its _alert has come and its local list

loopVars == <<running, pc, todo, loopNow, loops, lastStockScan, lastOptionsScan, lastCleanup,
              currentScanner, available>>
feedVars == <<busSubs, tickers, channels>>
tickVars == <<lastHistFetch, quote, quoteAt, lastReq, advances, call, priced, history, window>>
mainVars == <<status, threads, shutdown, atStop>>
otherVars == <<universe, lastUniverseSymbols, lastUniverseUpdate, alerts, writers>>
vars == <<now, t0, subs, running, pc, todo, loopNow, loops, lastStockScan, lastOptionsScan,
          lastCleanup, currentScanner, available, positions, busSubs, tickers, channels, faults, ev,
          lastHistFetch, quote, quoteAt, lastReq, advances, call, priced, history, window,
          status, threads, shutdown, atStop, torn, bars, universe, lastUniverseSymbols, lastUniverseUpdate,
          lastScanTime, alerts, writers>>

(***************************************************************************)
(* Helpers on the record list.                                             *)
(***************************************************************************)
SubSyms(S) == {S[i].sym : i \in 1..Len(S)}

HasSub(S, sym) == sym \in SubSyms(S)

IndexOf(S, sym) == CHOOSE i \in 1..Len(S) : S[i].sym = sym

RecOf(S, sym) == S[IndexOf(S, sym)]

\* del self._subscriptions[symbol]
RemoveSym(S, sym) == SelectSeq(S, LAMBDA r : r.sym # sym)

\* self._subscriptions[symbol]['last_activity'] = time.time()
TouchSkipped(S, sym, t) == S

Touch(S, sym, t) == [S EXCEPT ![IndexOf(S, sym)].last_activity = t]

\* _get_current_capacity
GetCurrentCapacityOffByOne(S) == Capacity + 1 - Len(S)

GetCurrentCapacity(S) == Capacity - Len(S)

NoEv == [op |-> "none", sym |-> NoSym, prio |-> 0, ok |-> FALSE, room |-> "notcalled",
         victim |-> NoSym, removed |-> {}, pre |-> <<>>, bus |-> "notcalled", failed |-> {}]

Min2(a, b) == IF a <= b THEN a ELSE b

Max2(a, b) == IF a >= b THEN a ELSE b

SeqToSet(q) == {q[i] : i \in 1..Len(q)}

\* Every order a dict of the given keys can be iterated in.
Orderings(set) ==
    {q \in [1..Cardinality(set) -> set] : \A i, j \in 1..Cardinality(set) : i # j => q[i] # q[j]}

(***************************************************************************)
(* MarketDataBus.subscribe: "connfail" is ensure_ib_connected raising,     *)
(* "reqfail" is reqMktData raising after the tick state was created.       *)
(***************************************************************************)
BusOutcomes == {"ok", "connfail", "reqfail"}

\* Python's None and float('nan'), kept apart from every price and timestamp.
NoneVal == -1
NaN == -2
\* float('inf')
Inf == -3

\* an instrument without an entry in MarketDataBus.tickers
NoTick == [has |-> FALSE, last |-> NoneVal, ts |-> NoneVal]

\* self.tickers.setdefault(symbol, {"last": None, "ts": None})
SetDefaultTick(T, sym) ==
    IF T[sym].has THEN T ELSE [T EXCEPT ![sym] = [has |-> TRUE, last |-> NoneVal, ts |-> NoneVal]]

BusSubscribe(F, sym, out) ==
    [busSubs  |-> IF out = "ok" THEN F.busSubs \cup {sym} ELSE F.busSubs,
     tickers  |-> IF out = "connfail" THEN F.tickers ELSE SetDefaultTick(F.tickers, sym),
     channels |-> IF out = "ok" THEN [F.channels EXCEPT ![sym] = @ + 1] ELSE F.channels]

\* ib.cancelMktData(contract) succeeding: one request of the instrument ends.
CancelMktData(F, sym) ==
    [F EXCEPT !.channels = [F.channels EXCEPT ![sym] = IF @ > 0 THEN @ - 1 ELSE 0]]

(***************************************************************************)
(* SubscriptionManager._unsubscribe / _make_room / _subscribe as functions *)
(* of the record list.  cancelOK is whether cancelMktData returns          *)
(* normally; busOut is the outcome of MarketDataBus.subscribe.             *)
(***************************************************************************)
Unsubscribe(S, sym, cancelOK) ==
    IF ~HasSub(S, sym) THEN S
    ELSE IF cancelOK THEN RemoveSym(S, sym)
    ELSE S

\* candidates of _make_room: info['priority'] < required_priority
EvictableInclusive(r, required) == r.priority <= required

Evictable(r, required) == r.priority < required

\* the sort key (priority, last_activity), compared as Python compares tuples
KeyLessByActivity(a, b) ==
    \/ a.last_activity < b.last_activity
    \/ a.last_activity = b.last_activity /\ a.priority < b.priority

KeyLess(a, b) ==
    \/ a.priority < b.priority
    \/ a.priority = b.priority /\ a.last_activity < b.last_activity

RECURSIVE InsertSorted(_, _)
InsertSorted(r, T) ==
    IF T = <<>> THEN <<r>>
    ELSE IF KeyLess(r, Head(T)) THEN <<r>> \o T
    ELSE <<Head(T)>> \o InsertSorted(r, Tail(T))

\* list.sort(key=...): stable, so equal keys keep their dict order
RECURSIVE SortCandidates(_)
SortCandidates(Cs) ==
    IF Cs = <<>> THEN <<>>
    ELSE InsertSorted(Cs[Len(Cs)], SortCandidates(SubSeq(Cs, 1, Len(Cs) - 1)))

CandidatesScannerOnly(S, required) == SelectSeq(S, LAMBDA r : r.priority = PRIORITY_SCANNER)

Candidates(S, required) == SelectSeq(S, LAMBDA r : Evictable(r, required))

MakeRoomAnyRecord(S, required, cancelOK) ==
    IF S = <<>> THEN
        [ok |-> FALSE, subs |-> S, victim |-> NoSym, room |-> "refused"]
    ELSE
        LET victim == SortCandidates(S)[1].sym IN
        [ok |-> TRUE, subs |-> Unsubscribe(S, victim, cancelOK), victim |-> victim,
         room |-> IF cancelOK THEN "evicted" ELSE "cancelfailed"]

MakeRoom(S, required, cancelOK) ==
    LET cands == Candidates(S, required) IN
    IF cands = <<>> THEN
        [ok |-> FALSE, subs |-> S, victim |-> NoSym, room |-> "refused"]
    ELSE
        LET victim == SortCandidates(cands)[1].sym IN
        [ok |-> TRUE, subs |-> Unsubscribe(S, victim, cancelOK), victim |-> victim,
         room |-> IF cancelOK THEN "evicted" ELSE "cancelfailed"]

NewRecord(sym, prio, t) ==
    [sym |-> sym, priority |-> prio, timestamp |-> t, last_activity |-> t]

SubscribeRecordingOnFailure(S, sym, prio, t, busOut, cancelOK) ==
    LET mr == IF GetCurrentCapacity(S) <= 0 THEN MakeRoom(S, prio, cancelOK)
              ELSE [ok |-> TRUE, subs |-> S, victim |-> NoSym, room |-> "notcalled"]
    IN  IF ~mr.ok THEN
            [subs |-> S, ok |-> FALSE, room |-> "refused", victim |-> NoSym, busCalled |-> FALSE]
        ELSE
            [subs |-> Append(mr.subs, NewRecord(sym, prio, t)), ok |-> busOut = "ok",
             room |-> mr.room, victim |-> mr.victim, busCalled |-> TRUE]

SubscribeIgnoringRefusal(S, sym, prio, t, busOut, cancelOK) ==
    LET mr == IF GetCurrentCapacity(S) <= 0 THEN MakeRoom(S, prio, cancelOK)
              ELSE [ok |-> TRUE, subs |-> S, victim |-> NoSym, room |-> "notcalled"]
    IN [subs |-> IF busOut = "ok" THEN Append(mr.subs, NewRecord(sym, prio, t)) ELSE mr.subs,
        ok |-> busOut = "ok", room |-> mr.room, victim |-> mr.victim, busCalled |-> TRUE]

Subscribe(S, sym, prio, t, busOut, cancelOK) ==
    IF HasSub(S, sym) THEN
        [subs |-> IF prio > RecOf(S, sym).priority
                  THEN [S EXCEPT ![IndexOf(S, sym)].priority = prio]
                  ELSE S,
         ok |-> TRUE, room |-> "notcalled", victim |-> NoSym, busCalled |-> FALSE]
    ELSE
        LET mr == IF GetCurrentCapacity(S) <= 0 THEN MakeRoom(S, prio, cancelOK)
                  ELSE [ok |-> TRUE, subs |-> S, victim |-> NoSym, room |-> "notcalled"]
        IN  IF ~mr.ok THEN
                [subs |-> S, ok |-> FALSE, room |-> "refused", victim |-> NoSym,
                 busCalled |-> FALSE]
            ELSE IF busOut = "ok" THEN
                [subs |-> Append(mr.subs, NewRecord(sym, prio, t)), ok |-> TRUE,
                 room |-> mr.room, victim |-> mr.victim, busCalled |-> TRUE]
            ELSE
                [subs |-> mr.subs, ok |-> FALSE, room |-> mr.room, victim |-> mr.victim,
                 busCalled |-> TRUE]

\* The provider-side and bus-side effects of one _subscribe call.
FeedAfterSubscribe(F, r, sym, busOut) ==
    LET F1 == IF r.room = "evicted" THEN CancelMktData(F, r.victim) ELSE F
    IN  IF r.busCalled THEN BusSubscribe(F1, sym, busOut) ELSE F1

Feed == [busSubs |-> busSubs, tickers |-> tickers, channels |-> channels]

\* torn once cancelMktData has been called for each instrument of syms
TornAfter(syms) == IF shutdown = "no" THEN torn ELSE torn \cup syms

\* One call self._subscribe(symbol, contract, priority) made by a pass; the
\* record is stamped with the clock as it reads when the bus call has returned.
DoSubscribe(sym, prio) ==
    \E busOut \in BusOutcomes, cancelOK \in BOOLEAN :
        LET r == Subscribe(subs, sym, prio, now + SubscribeSeconds, busOut, cancelOK)
            F == FeedAfterSubscribe(Feed, r, sym, busOut)
            used == (IF r.room = "cancelfailed" THEN 1 ELSE 0)
                    + (IF r.busCalled /\ busOut # "ok" THEN 1 ELSE 0)
        IN  /\ (cancelOK \/ r.room = "cancelfailed")
            /\ (busOut = "ok" \/ r.busCalled)
            /\ now' = IF r.busCalled /\ busOut = "ok" THEN now + SubscribeSeconds ELSE now
            /\ faults + used <= MaxFaults
            /\ faults' = faults + used
            /\ torn' = TornAfter(IF r.room \in {"evicted", "cancelfailed"} THEN {r.victim}
                                 ELSE {})
            /\ subs' = r.subs
            /\ busSubs' = F.busSubs
            /\ tickers' = F.tickers
            /\ channels' = F.channels
            /\ ev' = [op |-> "subscribe", sym |-> sym, prio |-> prio, ok |-> r.ok,
                      room |-> r.room, victim |-> r.victim, removed |-> {}, pre |-> subs,
                      bus |-> IF r.busCalled THEN busOut ELSE "notcalled",
                      failed |-> IF r.room = "cancelfailed" THEN {r.victim} ELSE {}]

\* The else branch of a pass: the record exists, its activity is refreshed.
DoTouch(sym) ==
    /\ subs' = Touch(subs, sym, now)
    /\ ev' = [NoEv EXCEPT !.op = "touch", !.sym = sym, !.pre = subs]
    /\ UNCHANGED <<now, feedVars, faults, torn>>

\* A Ticker no tick has arrived for: ib_insync initialises every field to nan.
NoQuote == [last |-> NaN, close |-> NaN, mkt |-> NaN, mid |-> NaN]

\* the main thread outside get_status
NoStatus == [pc |-> "idle", seen |-> <<>>, breakdown |-> <<>>, total |-> 0, available |-> 0]

\* The components that raise alerts, and one of them outside _alert.
Components == {"monitor", "scanner"}

NoWrite == [pc |-> "idle", id |-> 0, local |-> <<>>]

\* No entry of _bar_data for an instrument.
NoBar == [has |-> FALSE, highs |-> <<>>, lows |-> <<>>, closes |-> <<>>, volumes |-> <<>>,
          high |-> NoneVal, low |-> NoneVal, volume |-> 0, ticks |-> 0]

NoCall == [op |-> "none", sym |-> NoSym, px |-> NoneVal, ts |-> NoneVal, needs |-> FALSE,
           fetched |-> FALSE, at |-> NoneVal, prevReq |-> NoneVal, live |-> NoneVal,
           tradable |-> FALSE, primaryAt |-> NoneVal, hist |-> "none", pre |-> <<>>,
           phase |-> "none"]

(***************************************************************************)
(* Initial state: the objects as constructed, the scan thread not started. *)
(***************************************************************************)
InitAt(start, w) ==
    /\ now = start
    /\ window = w
    /\ history = [s \in Symbols |-> <<>>]
    /\ t0 = now
    /\ subs = <<>>
    /\ running = FALSE
    /\ pc = "idle"
    /\ todo = <<>>
    /\ loopNow = 0
    /\ loops = 0
    /\ lastStockScan = 0
    /\ lastOptionsScan = 0
    /\ lastCleanup = 0
    /\ currentScanner = {}
    /\ available = 0
    /\ positions = {}
    /\ busSubs = {}
    /\ tickers = [s \in Symbols |-> NoTick]
    /\ lastHistFetch = [s \in Symbols |-> NoneVal]
    /\ quote = [s \in Symbols |-> NoQuote]
    /\ quoteAt = [s \in Symbols |-> NoneVal]
    /\ lastReq = [s \in Symbols |-> NoneVal]
    /\ advances = 0
    /\ call = NoCall
    /\ priced = {}
    /\ channels = [s \in Symbols |-> 0]
    /\ faults = 0
    /\ ev = NoEv
    /\ status = NoStatus
    /\ threads = 0
    /\ shutdown = "no"
    /\ atStop = {}
    /\ torn = {}
    /\ bars = [s \in Symbols |-> NoBar]
    /\ universe = <<>>
    /\ lastUniverseSymbols = {}
    /\ lastUniverseUpdate = 0
    /\ lastScanTime = 0
    /\ alerts = <<>>
    /\ writers = [c \in Components |-> NoWrite]

Init == InitAt(MondayOpen, Window)

BusInit == \E start \in StartTimes : InitAt(start, Window)

PairInit == InitAt(SaturdayNoon, PairWindow)

(***************************************************************************)
(* SubscriptionManager.start, called by main before its loop (and a no-op  *)
(* whenever it is called again while _running is set).  pc is the position *)
(* of the thread created first.                                            *)
(***************************************************************************)
\* "if self._running: return"
StartProceedsAlways(r) == TRUE

StartProceeds(r) == ~r

Start ==
    /\ shutdown = "no"
    /\ StartProceeds(running)
    /\ running' = TRUE
    /\ threads' = threads + 1
    /\ pc' = IF threads = 0 THEN "top" ELSE pc
    /\ ev' = NoEv
    /\ UNCHANGED <<now, t0, tickVars, status, shutdown, atStop, faults, torn, subs, todo, loopNow,
                   loops, lastStockScan, lastOptionsScan, lastCleanup, currentScanner, available, positions,
                   feedVars,
                   bars, lastScanTime, otherVars>>

(***************************************************************************)
(* The scan loop, one step per call it makes.                              *)
(***************************************************************************)
\* while self._running: now = time.time(); _sync_positions reads STATE.positions,
\* whose keys are whatever positions are open at that moment, in dict order
LoopTop ==
    /\ pc = "top"
    /\ running
    /\ loops < MaxLoops
    /\ loops' = loops + 1
    /\ loopNow' = now
    /\ \E P \in SUBSET PositionUniverse :
          /\ positions' = P
          /\ todo' \in Orderings(P)
    /\ pc' = "positions"
    /\ ev' = NoEv
    /\ UNCHANGED <<now, t0, tickVars, mainVars, faults, torn, subs, running, lastStockScan, lastOptionsScan, lastCleanup,
                   currentScanner, available, feedVars,
                   bars, lastScanTime, otherVars>>

\* _get_contract_for_position: every position of the universe is a stock
GetContractForPosition(sym) == "STK"

\* one iteration of the loop of _sync_positions
SyncPositionsStep ==
    /\ pc = "positions"
    /\ todo # <<>>
    /\ LET sym == Head(todo) IN
          IF ~HasSub(subs, sym)
          THEN IF GetContractForPosition(sym) # "None"
               THEN DoSubscribe(sym, PRIORITY_POSITION)
               ELSE /\ ev' = NoEv
                    /\ UNCHANGED <<now, subs, feedVars, faults, torn>>
          ELSE DoTouch(sym)
    /\ todo' = Tail(todo)
    /\ UNCHANGED <<t0, tickVars, mainVars, running, pc, loopNow, loops, lastStockScan, lastOptionsScan, lastCleanup,
                   currentScanner, available, positions,
                   bars, lastScanTime, otherVars>>

\* _sync_positions returns; _sync_futures_watchlist begins
SyncPositionsEndEarly ==
    /\ pc = "positions"
    /\ pc' = "futures"
    /\ todo' = FUTURES_WATCHLIST
    /\ ev' = NoEv
    /\ UNCHANGED <<now, t0, tickVars, mainVars, faults, torn, subs, running, loopNow, loops, lastStockScan, lastOptionsScan,
                   lastCleanup, currentScanner, available, positions, feedVars,
                   bars, lastScanTime, otherVars>>

SyncPositionsEnd ==
    /\ pc = "positions"
    /\ todo = <<>>
    /\ pc' = "futures"
    /\ todo' = FUTURES_WATCHLIST
    /\ ev' = NoEv
    /\ UNCHANGED <<now, t0, tickVars, mainVars, faults, torn, subs, running, loopNow, loops, lastStockScan, lastOptionsScan,
                   lastCleanup, currentScanner, available, positions, feedVars,
                   bars, lastScanTime, otherVars>>

\* one iteration of the loop of _sync_futures_watchlist; qualifyContracts may raise
SyncFuturesStep ==
    /\ pc = "futures"
    /\ todo # <<>>
    /\ LET sym == Head(todo) IN
          IF ~HasSub(subs, sym)
          THEN \/ DoSubscribe(sym, PRIORITY_FUTURES)
               \/ /\ faults < MaxFaults
                  /\ faults' = faults + 1
                  /\ ev' = [NoEv EXCEPT !.op = "qualifyfailed", !.sym = sym]
                  /\ UNCHANGED <<now, subs, feedVars, torn>>
          ELSE DoTouch(sym)
    /\ todo' = Tail(todo)
    /\ UNCHANGED <<t0, tickVars, mainVars, running, pc, loopNow, loops, lastStockScan, lastOptionsScan, lastCleanup,
                   currentScanner, available, positions,
                   bars, lastScanTime, otherVars>>

\* _sync_futures_watchlist returns; the stock scanner runs if its interval elapsed
SyncFuturesEnd ==
    /\ pc = "futures"
    /\ todo = <<>>
    /\ pc' = IF loopNow - lastStockScan >= SCANNER_INTERVAL_SECONDS THEN "scan" ELSE "options"
    /\ ev' = NoEv
    /\ UNCHANGED <<now, t0, tickVars, mainVars, faults, torn, subs, running, todo, loopNow, loops, lastStockScan, lastOptionsScan,
                   lastCleanup, currentScanner, available, positions, feedVars,
                   bars, lastScanTime, otherVars>>

\* What pro_scanner.scan() can return: a ranked list without repetition
\* (empty when nothing qualified, when it is rate limited, or when it raised).
RankedLists ==
    UNION {Orderings(c) : c \in {x \in SUBSET ScannerUniverse : Cardinality(x) <= MaxCandidates}}

\* the rate limit of ProfessionalScanner.scan
RateLimited(t, last) == t - last < SCANNER_INTERVAL_SECONDS

MaxStocks(top, S) ==
    Min2(Len(top), Min2(SCANNER_MAX_SLOTS,
                        Max2(SCANNER_MIN_SLOTS, GetCurrentCapacity(S) - OPTIONS_SLOTS)))

\* _run_stock_scanner up to the subscription loop
RunStockScannerBegin ==
    /\ pc = "scan"
    /\ lastScanTime' = IF RateLimited(now, lastScanTime) THEN lastScanTime ELSE now
    /\ \E top \in (IF RateLimited(now, lastScanTime) THEN {<<>>} ELSE RankedLists) :
          IF top = <<>>
          THEN /\ pc' = "options"
               /\ lastStockScan' = loopNow
               /\ UNCHANGED <<todo, currentScanner, available>>
          ELSE /\ todo' = SubSeq(top, 1, MaxStocks(top, subs))
               /\ currentScanner' = SeqToSet(SubSeq(top, 1, MaxStocks(top, subs)))
               /\ available' = GetCurrentCapacity(subs)
               /\ pc' = "stocks"
               /\ UNCHANGED lastStockScan
    /\ ev' = NoEv
    /\ UNCHANGED <<now, t0, tickVars, mainVars, faults, torn, subs, running, loopNow, loops, lastOptionsScan, lastCleanup, positions,
                   feedVars,
                   bars, otherVars>>

\* one iteration of "for stock_data in stocks_to_subscribe"
RunStockScannerStep ==
    /\ pc = "stocks"
    /\ todo # <<>>
    /\ LET sym == Head(todo) IN
          IF ~HasSub(subs, sym)
          THEN DoSubscribe(sym, PRIORITY_SCANNER)
          ELSE DoTouch(sym)
    /\ todo' = Tail(todo)
    /\ UNCHANGED <<t0, tickVars, mainVars, running, pc, loopNow, loops, lastStockScan, lastOptionsScan, lastCleanup,
                   currentScanner, available, positions,
                   bars, lastScanTime, otherVars>>

\* scanner_subs not in current_scanner_symbols
Dropped(S, current) ==
    {S[i].sym : i \in {j \in 1..Len(S) : S[j].priority = PRIORITY_SCANNER}} \ current

\* _unsubscribe of each symbol of a set; failed holds those whose cancel raised
UnsubscribeAll(S, syms, failed) == SelectSeq(S, LAMBDA r : r.sym \notin (syms \ failed))

RECURSIVE CancelAll(_, _)
CancelAll(F, syms) ==
    IF syms = {} THEN F
    ELSE LET s == CHOOSE x \in syms : TRUE IN CancelAll(CancelMktData(F, s), syms \ {s})

\* "Remove scanner symbols that dropped out of top N", then _run_stock_scanner returns
RunStockScannerDrop ==
    /\ pc = "stocks"
    /\ todo = <<>>
    /\ LET drop == Dropped(subs, currentScanner) IN
       \E failed \in SUBSET drop :
          LET F == CancelAll(Feed, drop \ failed) IN
          /\ faults + Cardinality(failed) <= MaxFaults
          /\ faults' = faults + Cardinality(failed)
          /\ torn' = TornAfter(drop)
          /\ subs' = UnsubscribeAll(subs, drop, failed)
          /\ channels' = F.channels
          /\ ev' = [NoEv EXCEPT !.op = "drop", !.removed = drop \ failed, !.pre = subs,
                                !.failed = failed]
    /\ pc' = "options"
    /\ lastStockScan' = loopNow
    /\ currentScanner' = {}
    /\ available' = 0
    /\ UNCHANGED <<now, t0, tickVars, mainVars, running, todo, loopNow, loops, lastOptionsScan, lastCleanup, positions,
                   busSubs, tickers,
                   bars, lastScanTime, otherVars>>

\* _run_options_scanner: subscribes nothing, only publishes STATE.unusual_options
OptionsStep ==
    /\ pc = "options"
    /\ lastOptionsScan' = IF loopNow - lastOptionsScan >= OPTIONS_SCAN_INTERVAL
                          THEN loopNow ELSE lastOptionsScan
    /\ pc' = "cleanup"
    /\ ev' = NoEv
    /\ UNCHANGED <<now, t0, tickVars, mainVars, faults, torn, subs, running, todo, loopNow, loops, lastStockScan, lastCleanup,
                   currentScanner, available, positions, feedVars,
                   bars, lastScanTime, otherVars>>

\* to_remove of _cleanup_stale at time t
StaleSymbolsAnyTier(S, t) ==
    {S[i].sym : i \in {j \in 1..Len(S) : t - S[j].last_activity > STALE_THRESHOLD}}

StaleSymbols(S, t) ==
    {S[i].sym : i \in {j \in 1..Len(S) : /\ ~(S[j].priority >= PRIORITY_FUTURES)
                                         /\ t - S[j].last_activity > STALE_THRESHOLD}}

\* _cleanup_stale, when its interval elapsed
CleanupStep ==
    /\ pc = "cleanup"
    /\ IF loopNow - lastCleanup >= CLEANUP_INTERVAL
       THEN /\ LET stale == StaleSymbols(subs, now) IN
               \E failed \in SUBSET stale :
                  LET F == CancelAll(Feed, stale \ failed) IN
                  /\ faults + Cardinality(failed) <= MaxFaults
                  /\ faults' = faults + Cardinality(failed)
                  /\ torn' = TornAfter(stale)
                  /\ subs' = UnsubscribeAll(subs, stale, failed)
                  /\ channels' = F.channels
                  /\ ev' = [NoEv EXCEPT !.op = "cleanup", !.removed = stale \ failed,
                                        !.pre = subs, !.failed = failed]
            /\ lastCleanup' = loopNow
       ELSE /\ ev' = NoEv
            /\ UNCHANGED <<subs, channels, lastCleanup, faults, torn>>
    /\ pc' = "sleep"
    /\ UNCHANGED <<now, t0, tickVars, mainVars, running, todo, loopNow, loops, lastStockScan, lastOptionsScan,
                   currentScanner, available, positions, busSubs, tickers,
                   bars, lastScanTime, otherVars>>

\* time.sleep(10): the thread resumes 10 s later, or later still when it was stalled.
SleepFor(stalls) ==
    /\ pc = "sleep"
    /\ \E d \in {0} \cup stalls :
          /\ (now + SLEEP_SECONDS + d) - t0 <= MaxElapsed
          /\ now' = now + SLEEP_SECONDS + d
    /\ pc' = "top"
    /\ ev' = NoEv
    /\ UNCHANGED <<t0, tickVars, mainVars, faults, torn, subs, running, todo, loopNow, loops, lastStockScan, lastOptionsScan,
                   lastCleanup, currentScanner, available, positions, feedVars,
                   bars, lastScanTime, otherVars>>

SleepStep == SleepFor(Stalls)

Next ==
    \/ Start
    \/ LoopTop
    \/ SyncPositionsStep
    \/ SyncPositionsEnd
    \/ SyncFuturesStep
    \/ SyncFuturesEnd
    \/ RunStockScannerBegin
    \/ RunStockScannerStep
    \/ RunStockScannerDrop
    \/ OptionsStep
    \/ CleanupStep
    \/ SleepStep

Spec == Init /\ [][Next]_vars

(***************************************************************************)
(* Market session clock (is_market_hours).                                 *)
(***************************************************************************)
\* dt_time(h, m) as seconds since midnight
TimeOfDay(hm) == hm[1] * 3600 + hm[2] * 60

\* datetime.now().weekday(): 0 is Monday
Weekday(t) == (t \div 86400) % 7

\* datetime.now().time(), in whole seconds
ClockTime(t) == t % 86400

\* is_market_hours() called at instant t: the pair (is_tradable, phase)
IsMarketHoursAnyDay(t) ==
    IF TimeOfDay(PREMARKET_START) <= ClockTime(t) /\ ClockTime(t) < TimeOfDay(REGULAR_START)
    THEN <<TRUE, "pre">>
    ELSE IF TimeOfDay(REGULAR_START) <= ClockTime(t) /\ ClockTime(t) < TimeOfDay(REGULAR_END)
         THEN <<TRUE, "regular">>
    ELSE IF TimeOfDay(REGULAR_END) <= ClockTime(t) /\ ClockTime(t) < TimeOfDay(AFTERHOURS_END)
         THEN <<TRUE, "after">>
    ELSE <<FALSE, "closed">>

IsMarketHours(t) ==
    IF Weekday(t) >= 5 THEN <<FALSE, "closed">>
    ELSE IF TimeOfDay(PREMARKET_START) <= ClockTime(t) /\ ClockTime(t) < TimeOfDay(REGULAR_START)
         THEN <<TRUE, "pre">>
    ELSE IF TimeOfDay(REGULAR_START) <= ClockTime(t) /\ ClockTime(t) < TimeOfDay(REGULAR_END)
         THEN <<TRUE, "regular">>
    ELSE IF TimeOfDay(REGULAR_END) <= ClockTime(t) /\ ClockTime(t) < TimeOfDay(AFTERHOURS_END)
         THEN <<TRUE, "after">>
    ELSE <<FALSE, "closed">>

Phase(t) == IsMarketHours(t)[2]

IsTradable(t) == IsMarketHours(t)[1]

(***************************************************************************)
(* MarketDataBus._live_tick / _historical_fallback / get_last.             *)
(***************************************************************************)
\* truth value of a Python float or None: None and 0.0 are false, nan is true
Truthy(v) == v # NoneVal /\ v # 0

\* a or b
PyOr(a, b) == IF Truthy(a) THEN a ELSE b

\* ticker.last or ticker.close or ticker.marketPrice() or ticker.midpoint()
PxChain(q) == PyOr(PyOr(PyOr(q.last, q.close), q.mkt), q.mid)

\* "if px is not None and isinstance(px, float) and math.isnan(px): px = None"
NanToNoneSkipped(px) == px

NanToNone(px) == IF px = NaN THEN NoneVal ELSE px

\* _record_tick, as far as self.tickers goes
RecordTick(T, sym, px, ts) == [T EXCEPT ![sym] = [has |-> TRUE, last |-> px, ts |-> ts]]

\* deque(maxlen=w).append(px)
DequeAppendUnbounded(h, px, w) == Append(h, px)

DequeAppend(h, px, w) ==
    IF w = 0 THEN <<>>
    ELSE IF Len(h) < w THEN Append(h, px)
    ELSE Append(Tail(h), px)

\* _record_tick, as far as self.history goes
RecordHistory(H, sym, px, w) == [H EXCEPT ![sym] = DequeAppend(@, px, w)]

\* max(a, b) and min(a, b) of Python: b only when it compares greater (less),
\* and no comparison with nan is true
PyGt(x, y) ==
    /\ x # NaN /\ y # NaN
    /\ IF x = Inf THEN y # Inf ELSE (y # Inf /\ x > y)

PyMax(a, b) == IF PyGt(b, a) THEN b ELSE a

PyMin(a, b) == IF PyGt(a, b) THEN b ELSE a

\* _update_bar_data; ticks counts the calls since the bar was opened (history)
UpdateBarData(b, price) ==
    LET c == IF b.has THEN b
             ELSE [NoBar EXCEPT !.has = TRUE, !.high = price, !.low = price, !.volume = 0]
    IN [c EXCEPT !.high = PyMax(c.high, price), !.low = PyMin(c.low, price),
                 !.volume = c.volume + 1, !.ticks = c.ticks + 1]

RECURSIVE UpdateBars(_, _)
\* _update_bar_data for each price _record_tick was called with
UpdateBars(b, prices) ==
    IF prices = <<>> THEN b ELSE UpdateBars(UpdateBarData(b, Head(prices)), Tail(prices))

\* _finalize_bar, the histories being deques of maxlen n
FinalizeBarKeepingBar(b, close_price, n) ==
    IF ~b.has THEN b
    ELSE [b EXCEPT !.highs = DequeAppend(@, b.high, n), !.lows = DequeAppend(@, b.low, n),
                   !.closes = DequeAppend(@, close_price, n),
                   !.volumes = DequeAppend(@, b.volume, n)]

FinalizeBar(b, close_price, n) ==
    IF ~b.has THEN b
    ELSE [b EXCEPT !.highs = DequeAppend(@, b.high, n), !.lows = DequeAppend(@, b.low, n),
                   !.closes = DequeAppend(@, close_price, n),
                   !.volumes = DequeAppend(@, b.volume, n),
                   !.high = close_price, !.low = close_price, !.volume = 0, !.ticks = 0]

LiveTick(T, H, w, sym, q, t) ==
    LET px == NanToNone(PxChain(q)) IN
    IF px = NoneVal
    THEN [tickers |-> [T EXCEPT ![sym] = [has |-> TRUE, last |-> T[sym].last, ts |-> t]],
          history |-> H, px |-> T[sym].last, ts |-> t, live |-> px]
    ELSE [tickers |-> RecordTick(T, sym, px, t), history |-> RecordHistory(H, sym, px, w),
          px |-> px, ts |-> t, live |-> px]

\* What reqHistoricalData can do: raise, return no bars, or return bars whose
\* last close is a price or nan.
HistOutcomes ==
    {[kind |-> "raise", close |-> NoneVal], [kind |-> "nobars", close |-> NoneVal],
     [kind |-> "bars", close |-> 5], [kind |-> "bars", close |-> NaN]}

\* the cooldown test of _historical_fallback
InCooldownNever(last, t) == FALSE

InCooldown(last, t) == Truthy(last) /\ (t - last) < FALLBACK_COOLDOWN_SECONDS

HistoricalFallbackForgettingOnFailure(T, H, w, L, sym, t, out) ==
    IF ~HISTORICAL_FALLBACK_ENABLED \/ InCooldown(L[sym], t)
    THEN [tickers |-> T, history |-> H, lastHistFetch |-> L, fetched |-> FALSE]
    ELSE [tickers |-> RecordTick(T, sym, out.close, t),
          history |-> IF out.kind = "bars" THEN RecordHistory(H, sym, out.close, w) ELSE H,
          lastHistFetch |-> [L EXCEPT ![sym] = t],
          fetched |-> TRUE]

HistoricalFallback(T, H, w, L, sym, t, out) ==
    IF ~HISTORICAL_FALLBACK_ENABLED \/ InCooldown(L[sym], t)
    THEN [tickers |-> T, history |-> H, lastHistFetch |-> L, fetched |-> FALSE]
    ELSE [tickers |-> IF out.kind = "bars" THEN RecordTick(T, sym, out.close, t) ELSE T,
          history |-> IF out.kind = "bars" THEN RecordHistory(H, sym, out.close, w) ELSE H,
          lastHistFetch |-> [L EXCEPT ![sym] = t],
          fetched |-> TRUE]

\* the staleness verdict of get_last, from what _live_tick returned
NeedsFallbackIgnoringPhase(px, lastTs, t) ==
    \/ px = NoneVal \/ px = NaN
    \/ Truthy(lastTs) /\ (t - lastTs) >= FALLBACK_TRIGGER_SECONDS

NeedsFallbackAtAnyAge(px, lastTs, t) ==
    \/ px = NoneVal \/ px = NaN
    \/ Truthy(lastTs) /\ (t - lastTs) >= 0
    \/ ~IsTradable(t)

NeedsFallback(px, lastTs, t) ==
    \/ px = NoneVal \/ px = NaN
    \/ Truthy(lastTs) /\ (t - lastTs) >= FALLBACK_TRIGGER_SECONDS
    \/ ~IsTradable(t)

GetLastResult(T, H, w, L, sym, q, t, out) ==
    LET lt == LiveTick(T, H, w, sym, q, t)
        needs == NeedsFallback(lt.px, lt.tickers[sym].ts, t)
        hf == IF needs THEN HistoricalFallback(lt.tickers, lt.history, w, L, sym, t, out)
              ELSE [tickers |-> lt.tickers, history |-> lt.history, lastHistFetch |-> L,
                    fetched |-> FALSE]
        px == IF needs THEN hf.tickers[sym].last ELSE lt.px
        ts == IF needs THEN PyOr(hf.tickers[sym].ts, lt.ts) ELSE lt.ts
    IN [tickers |-> hf.tickers, history |-> hf.history, lastHistFetch |-> hf.lastHistFetch,
        needs |-> needs, fetched |-> hf.fetched, px |-> NanToNone(px), ts |-> ts,
        live |-> lt.live]

\* the prices _record_tick was called with during a get_last that returned r
Recorded(r, out) ==
    (IF r.live = NoneVal THEN <<>> ELSE <<r.live>>)
        \o (IF r.fetched /\ out.kind = "bars" THEN <<out.close>> ELSE <<>>)

\* Field values a Ticker is seen with.
GoodQuote == [last |-> 7, close |-> 6, mkt |-> 7, mid |-> 7]

\* A Ticker with zero prices and no bid/ask.
ZeroQuote == [last |-> 0, close |-> 0, mkt |-> 0, mid |-> NaN]

\* A Ticker whose last price is infinite.
InfQuote == [last |-> Inf, close |-> 6, mkt |-> Inf, mid |-> Inf]

Quotes == {GoodQuote, [last |-> 0, close |-> 6, mkt |-> 0, mid |-> NaN], ZeroQuote, InfQuote}

\* A Ticker whose fields give _live_tick a price: the or-chain stops at a number.
UsableQuote(q) == PxChain(q) # NoneVal /\ PxChain(q) # NaN

\* The provider delivers a tick on an open channel.
ProviderTick(U, Q) ==
    /\ \E s \in U, q \in Q :
          /\ channels[s] > 0
          /\ quote' = [quote EXCEPT ![s] = q]
          /\ quoteAt' = [quoteAt EXCEPT ![s] = now]
          /\ priced' = IF UsableQuote(q) THEN priced \cup {s} ELSE priced
    /\ call' = NoCall
    /\ UNCHANGED <<now, t0, subs, loopVars, positions, feedVars, faults, torn, ev, lastHistFetch,
                   lastReq, advances, history, window, mainVars,
                   bars, lastScanTime, otherVars>>

\* A caller other than the manager (TradeManager._sync_positions) subscribes an
\* instrument the bus does not have yet.
BusSubscribeCall(U) ==
    /\ \E s \in U \ busSubs, out \in BusOutcomes :
          LET F == BusSubscribe(Feed, s, out) IN
          /\ faults + (IF out = "ok" THEN 0 ELSE 1) <= MaxFaults
          /\ faults' = faults + (IF out = "ok" THEN 0 ELSE 1)
          /\ busSubs' = F.busSubs
          /\ tickers' = F.tickers
          /\ channels' = F.channels
          /\ call' = [NoCall EXCEPT !.op = "subscribe", !.sym = s]
    /\ UNCHANGED <<now, t0, subs, loopVars, positions, ev, lastHistFetch, quote, quoteAt,
                   lastReq, advances, priced, history, window, mainVars, torn,
                   bars, lastScanTime, otherVars>>

\* get_last(symbol); for an instrument without a ticker _live_tick raises.
\* The bar accumulator is followed when bar is TRUE, with at most MaxBarTicks
\* ticks in an open bar.
GetLastStep(U, bar) ==
    /\ \E s \in U :
          IF s \notin busSubs
          THEN /\ call' = [NoCall EXCEPT !.op = "get_last_raised", !.sym = s]
               /\ UNCHANGED <<tickers, lastHistFetch, lastReq, priced, history, bars>>
          ELSE \E out \in HistOutcomes :
                  \E r \in {GetLastResult(tickers, history, window, lastHistFetch, s, quote[s],
                                          now, out)} :
                  /\ (r.fetched \/ out.kind = "nobars")
                  /\ bar => bars[s].volume + Len(Recorded(r, out)) <= MaxBarTicks
                  /\ bars' = IF bar THEN [bars EXCEPT ![s] = UpdateBars(@, Recorded(r, out))]
                              ELSE bars
                  /\ tickers' = r.tickers
                  /\ history' = r.history
                  /\ lastHistFetch' = r.lastHistFetch
                  /\ lastReq' = IF r.fetched THEN [lastReq EXCEPT ![s] = now] ELSE lastReq
                  /\ priced' = IF r.fetched /\ out.kind = "bars" THEN priced \cup {s}
                                ELSE priced
                  /\ call' = [op |-> "get_last", sym |-> s, px |-> r.px, ts |-> r.ts,
                              needs |-> r.needs, fetched |-> r.fetched, at |-> now,
                              prevReq |-> lastReq[s], live |-> r.live,
                              tradable |-> IsTradable(now), primaryAt |-> quoteAt[s],
                              hist |-> IF r.fetched THEN out.kind ELSE "none",
                              pre |-> history[s], phase |-> Phase(now)]
    /\ UNCHANGED <<now, t0, subs, loopVars, positions, busSubs, channels, faults, torn, ev, quote,
                   quoteAt, advances, window, mainVars, lastScanTime, otherVars>>

GetLast(U) == GetLastStep(U, FALSE)

BusAdvance(steps, max) ==
    /\ advances < max
    /\ advances' = advances + 1
    /\ \E d \in steps : now' = now + d
    /\ call' = NoCall
    /\ UNCHANGED <<t0, subs, loopVars, positions, feedVars, faults, torn, ev, lastHistFetch, quote,
                   quoteAt, lastReq, priced, history, window, mainVars,
                   bars, lastScanTime, otherVars>>

BusNext ==
    \/ ProviderTick(BusUniverse, Quotes)
    \/ BusSubscribeCall(BusUniverse)
    \/ GetLast(BusUniverse)
    \/ BusAdvance(BusTimeSteps, MaxAdvances)

BusSpec == BusInit /\ [][BusNext]_vars

PairNext ==
    \/ ProviderTick(PairUniverse, {GoodQuote, ZeroQuote})
    \/ BusSubscribeCall(PairUniverse)
    \/ GetLast(PairUniverse)
    \/ BusAdvance(PairTimeSteps, MaxPairAdvances)

PairSpec == PairInit /\ [][PairNext]_vars

(***************************************************************************)
(* is_market_hours over the week: the instants one second before, at and   *)
(* one second after each boundary of each day, and each midnight.          *)
(***************************************************************************)
PhaseBoundaries ==
    {0, TimeOfDay(PREMARKET_START), TimeOfDay(REGULAR_START), TimeOfDay(REGULAR_END),
     TimeOfDay(AFTERHOURS_END)}

PhaseInstants ==
    {d * 86400 + b + e : d \in 0..6, b \in PhaseBoundaries, e \in {0, 1}}
    \cup {d * 86400 + b - 1 : d \in 0..6, b \in PhaseBoundaries \ {0}}
    \cup {d * 86400 - 1 : d \in 1..7}

PhaseInit == \E start \in PhaseInstants : InitAt(start, Window)

\* a caller asks for the phase (get_market_phase, snapshot, get_last)
IsMarketHoursCall ==
    /\ call' = [NoCall EXCEPT !.op = "is_market_hours", !.at = now,
                              !.tradable = IsMarketHours(now)[1],
                              !.phase = IsMarketHours(now)[2]]
    /\ UNCHANGED <<now, t0, subs, loopVars, positions, feedVars, faults, torn, ev, lastHistFetch,
                   quote, quoteAt, lastReq, advances, priced, history, window, mainVars,
                   bars, lastScanTime, otherVars>>

\* the clock reaches the next instant
PhaseAdvance ==
    /\ \E t \in PhaseInstants :
          /\ t > now
          /\ \A u \in PhaseInstants : u > now => t <= u
          /\ now' = t
    /\ call' = NoCall
    /\ UNCHANGED <<t0, subs, loopVars, positions, feedVars, faults, torn, ev, lastHistFetch, quote,
                   quoteAt, lastReq, advances, priced, history, window, mainVars,
                   bars, lastScanTime, otherVars>>

PhaseNext ==
    \/ IsMarketHoursCall
    \/ PhaseAdvance

PhaseSpec == PhaseInit /\ [][PhaseNext]_vars

(***************************************************************************)
(* The subscription manager's scan loop next to TradeManager's position     *)
(* sync, which runs on the main thread and subscribes a position's          *)
(* instrument on the bus directly when the bus has no entry for it.         *)
(***************************************************************************)
ChannelNext ==
    \/ Start
    \/ (LoopTop /\ loops < MaxChannelLoops)
    \/ SyncPositionsStep
    \/ SyncPositionsEnd
    \/ SyncFuturesStep
    \/ SyncFuturesEnd
    \/ RunStockScannerBegin
    \/ RunStockScannerStep
    \/ RunStockScannerDrop
    \/ OptionsStep
    \/ CleanupStep
    \/ SleepStep
    \/ BusSubscribeCall(PositionUniverse)

ChannelSpec == Init /\ [][ChannelNext]_vars

(***************************************************************************)
(* get_status, called by the main loop while the scan-loop thread runs.    *)
(* Nothing in scanner_coordinator.py takes a lock, so the thread can take  *)
(* a step between any two reads of _subscriptions the call makes: the      *)
(* iteration of _get_priority_breakdown, len() for 'total', and            *)
(* _get_current_capacity for 'available'.                                  *)
(***************************************************************************)
\* the entries a dict iterator begun on the map finds: symbol and priority
Entries(S) == [i \in 1..Len(S) |-> [sym |-> S[i].sym, priority |-> S[i].priority]]

\* where the iterator meets the entry of sym: a key that was in the map when the
\* iteration began keeps its slot, a key inserted later lies behind all of them
EntryIndex(seen, sym) ==
    IF \E i \in 1..Len(seen) : seen[i].sym = sym
    THEN CHOOSE i \in 1..Len(seen) : seen[i].sym = sym
    ELSE Len(seen) + 1

\* breakdown[p] of an iteration that had yielded k entries of `seen` when the
\* map became S
CountPriority(seen, S, k, p) ==
    Cardinality({i \in 1..k : seen[i].priority = p})
    + Cardinality({j \in 1..Len(S) : S[j].priority = p /\ EntryIndex(seen, S[j].sym) > k})

\* _get_priority_breakdown, as get_status reads it
PriorityBreakdown(seen, S, k) ==
    [positions |-> CountPriority(seen, S, k, PRIORITY_POSITION),
     futures   |-> CountPriority(seen, S, k, PRIORITY_FUTURES),
     options   |-> CountPriority(seen, S, k, PRIORITY_OPTIONS),
     scanner   |-> CountPriority(seen, S, k, PRIORITY_SCANNER)]

\* get_status is entered: the for loop of _get_priority_breakdown begins
GetStatusBegin ==
    /\ status.pc \in {"idle", "done"}
    /\ status' = [NoStatus EXCEPT !.pc = "iterating", !.seen = Entries(subs)]
    /\ UNCHANGED <<now, t0, subs, loopVars, positions, feedVars, faults, torn, ev, tickVars,
                   threads, shutdown, atStop,
                   bars, lastScanTime, otherVars>>

\* the for loop ends: the iterator raises RuntimeError when the size of the map
\* is not the one it began with; otherwise the entries it yielded before the map
\* changed are counted as they were and the others as they are
GetStatusBreakdown ==
    /\ status.pc = "iterating"
    /\ IF Len(subs) # Len(status.seen)
       THEN status' = [NoStatus EXCEPT !.pc = "raised"]
       ELSE \E k \in 0..Len(status.seen) :
               /\ (Entries(subs) = status.seen => k = 0)
               /\ status' = [status EXCEPT !.pc = "total", !.seen = <<>>,
                                           !.breakdown = PriorityBreakdown(status.seen, subs, k)]
    /\ UNCHANGED <<now, t0, subs, loopVars, positions, feedVars, faults, torn, ev, tickVars,
                   threads, shutdown, atStop,
                   bars, lastScanTime, otherVars>>

\* 'total': len(self._subscriptions)
GetStatusTotal ==
    /\ status.pc = "total"
    /\ status' = [status EXCEPT !.pc = "available", !.total = Len(subs)]
    /\ UNCHANGED <<now, t0, subs, loopVars, positions, feedVars, faults, torn, ev, tickVars,
                   threads, shutdown, atStop,
                   bars, lastScanTime, otherVars>>

\* 'available': self._get_current_capacity(); the dict is built and returned
GetStatusReturn ==
    /\ status.pc = "available"
    /\ status' = [status EXCEPT !.pc = "done", !.available = GetCurrentCapacity(subs)]
    /\ UNCHANGED <<now, t0, subs, loopVars, positions, feedVars, faults, torn, ev, tickVars,
                   threads, shutdown, atStop,
                   bars, lastScanTime, otherVars>>

StatusNext ==
    \/ Start
    \/ (LoopTop /\ loops < MaxChannelLoops)
    \/ SyncPositionsStep
    \/ SyncPositionsEnd
    \/ SyncFuturesStep
    \/ SyncFuturesEnd
    \/ RunStockScannerBegin
    \/ RunStockScannerStep
    \/ RunStockScannerDrop
    \/ OptionsStep
    \/ CleanupStep
    \/ SleepStep
    \/ GetStatusBegin
    \/ GetStatusBreakdown
    \/ GetStatusTotal
    \/ GetStatusReturn

StatusSpec == Init /\ [][StatusNext]_vars

(***************************************************************************)
(* The shutdown path of main (its finally block): SubscriptionManager.stop *)
(* and then TradeManager.stop, after which the process ends and its daemon *)
(* thread with it.  stop is called nowhere else, so start is not called    *)
(* after it.                                                               *)
(***************************************************************************)
\* stop(): self._running = False, up to the join
Stop ==
    /\ shutdown = "no"
    /\ running
    /\ running' = FALSE
    /\ shutdown' = "joining"
    /\ atStop' = SubSyms(subs)
    /\ torn' = {}
    /\ UNCHANGED <<now, t0, subs, pc, todo, loopNow, loops, lastStockScan, lastOptionsScan,
                   lastCleanup, currentScanner, available, positions, feedVars, faults, ev, tickVars, status,
                   threads,
                   bars, lastScanTime, otherVars>>

\* self._scan_thread.join(timeout=5) returns: the thread has ended, or it is
\* still alive when the timeout has passed
JoinReturn ==
    /\ shutdown = "joining"
    /\ now' = IF threads = 0 THEN now ELSE now + JOIN_TIMEOUT
    /\ shutdown' = "manager"
    /\ UNCHANGED <<t0, subs, loopVars, positions, feedVars, faults, torn, ev, tickVars, status,
                   threads, atStop,
                   bars, lastScanTime, otherVars>>

\* "while self._running" is false: _scan_loop returns and the thread ends
ThreadExit ==
    /\ pc = "top"
    /\ ~running
    /\ pc' = "exited"
    /\ threads' = threads - 1
    /\ ev' = NoEv
    /\ UNCHANGED <<now, t0, subs, running, todo, loopNow, loops, lastStockScan, lastOptionsScan,
                   lastCleanup, currentScanner, available, positions, feedVars, faults, torn, tickVars,
                   status, shutdown, atStop,
                   bars, lastScanTime, otherVars>>

\* TradeManager.stop(): "if self.mdb: pass", then self.ibc.disconnect()
TradeManagerStop ==
    /\ shutdown = "manager"
    /\ shutdown' = "done"
    /\ UNCHANGED <<now, t0, subs, loopVars, positions, feedVars, faults, torn, ev, tickVars,
                   status, threads, atStop,
                   bars, lastScanTime, otherVars>>

\* a step of the scan-loop thread inside an iteration
ScanLoopBody ==
    \/ SyncPositionsStep
    \/ SyncPositionsEnd
    \/ SyncFuturesStep
    \/ SyncFuturesEnd
    \/ RunStockScannerBegin
    \/ RunStockScannerStep
    \/ RunStockScannerDrop
    \/ OptionsStep
    \/ CleanupStep
    \/ SleepStep

LifeNext ==
    \/ Start
    \/ (LoopTop /\ loops < MaxChannelLoops /\ shutdown # "done")
    \/ (ScanLoopBody /\ shutdown # "done")
    \/ ThreadExit
    \/ Stop
    \/ JoinReturn
    \/ TradeManagerStop

LifeSpec == Init /\ [][LifeNext]_vars

(***************************************************************************)
(* The scan loop with a provider that may never answer: qualifyContracts   *)
(* is called in _sync_futures_watchlist without a timeout, and the thread  *)
(* waits in it.                                                            *)
(***************************************************************************)
ProviderHang ==
    /\ pc = "futures"
    /\ todo # <<>>
    /\ ~HasSub(subs, Head(todo))
    /\ pc' = "blocked"
    /\ ev' = [NoEv EXCEPT !.op = "hung", !.sym = Head(todo)]
    /\ UNCHANGED <<now, t0, subs, running, todo, loopNow, loops, lastStockScan, lastOptionsScan,
                   lastCleanup, currentScanner, available, positions, feedVars, faults, torn, tickVars,
                   mainVars,
                   bars, lastScanTime, otherVars>>

HangNext ==
    \/ Start
    \/ (LoopTop /\ loops < MaxChannelLoops)
    \/ ScanLoopBody
    \/ ProviderHang

\* the thread takes its next step whenever it has one
HangSpec == Init /\ [][HangNext]_vars /\ WF_vars(HangNext)

(***************************************************************************)
(* start() and stop() called in any order by the owner of the manager.     *)
(* join(timeout=5) gives up on a thread that is inside time.sleep(10); a   *)
(* thread elsewhere in the iteration reaches the sleep or the loop test    *)
(* first.  The manager is followed until a second loop thread exists.      *)
(***************************************************************************)
\* stop() returns to its caller: the thread has ended, or the join timed out
StopReturns ==
    /\ shutdown = "joining"
    /\ threads = 0 \/ pc = "sleep"
    /\ now' = IF threads = 0 THEN now ELSE now + JOIN_TIMEOUT
    /\ shutdown' = "no"
    /\ UNCHANGED <<t0, subs, loopVars, positions, feedVars, faults, torn, ev, tickVars, status,
                   threads, atStop, bars, lastScanTime, otherVars>>

RestartNext ==
    \/ (Start /\ threads < MaxThreads)
    \/ (LoopTop /\ loops < MaxChannelLoops /\ threads <= 1)
    \/ (ScanLoopBody /\ threads <= 1)
    \/ (ThreadExit /\ threads <= 1)
    \/ (Stop /\ threads <= 1)
    \/ (StopReturns /\ threads <= 1)

RestartSpec == Init /\ [][RestartNext]_vars

(***************************************************************************)
(* The scan loop with a thread that can resume from time.sleep(10) so late *)
(* that a minute has gone by since the top of the iteration, or since the  *)
(* sleep began.                                                            *)
(***************************************************************************)
ScanStalls ==
    {SCANNER_INTERVAL_SECONDS - SLEEP_SECONDS - Capacity * SubscribeSeconds,
     SCANNER_INTERVAL_SECONDS - SLEEP_SECONDS}

ScanNext ==
    \/ Start
    \/ LoopTop
    \/ SyncPositionsStep
    \/ SyncPositionsEnd
    \/ SyncFuturesStep
    \/ SyncFuturesEnd
    \/ RunStockScannerBegin
    \/ RunStockScannerStep
    \/ RunStockScannerDrop
    \/ OptionsStep
    \/ CleanupStep
    \/ SleepFor(ScanStalls)

ScanSpec == Init /\ [][ScanNext]_vars

(***************************************************************************)
(* Two components raising alerts on the state bus, each on its own thread. *)
(* STATE.get() and STATE.update() each hold the lock of the bus for their  *)
(* own duration; _alert holds nothing between them.                        *)
(***************************************************************************)
\* self._alert_id += 1; alerts = STATE.get().get("alerts", []): a copy of the list
AlertGet(c) ==
    /\ writers[c].pc = "idle"
    /\ writers[c].id < MaxAlerts
    /\ writers' = [writers EXCEPT ![c] = [pc |-> "got", id |-> @.id + 1, local |-> alerts]]
    /\ UNCHANGED alerts

\* alerts.append({...})
AlertAppend(c) ==
    /\ writers[c].pc = "got"
    /\ writers' = [writers EXCEPT ![c].pc = "appended",
                                  ![c].local = Append(@, [by |-> c, id |-> writers[c].id])]
    /\ UNCHANGED alerts

\* STATE.update(alerts=alerts): setattr(self, "alerts", v) under the lock
AlertUpdate(c) ==
    /\ writers[c].pc = "appended"
    /\ alerts' = writers[c].local
    /\ writers' = [writers EXCEPT ![c].pc = "idle", ![c].local = <<>>]

AlertNext ==
    /\ \E c \in Components : AlertGet(c) \/ AlertAppend(c) \/ AlertUpdate(c)
    /\ UNCHANGED <<now, t0, subs, loopVars, positions, feedVars, faults, torn, ev, tickVars,
                   mainVars, bars, lastScanTime, universe, lastUniverseSymbols,
                   lastUniverseUpdate>>

AlertSpec == Init /\ [][AlertNext]_vars

(***************************************************************************)
(* BreakoutScanner.update_universe, called with lists of symbol strings    *)
(* and with the set of position symbols, as time passes.                   *)
(***************************************************************************)
\* symbols as callers write them, and item.upper().strip() of each
RawSymbols == {"a", "A", "B", "C"}

Upper == [x \in RawSymbols |-> IF x = "a" THEN "A" ELSE x]

UniversePositions == {"A", "B", "C"}

UniverseTimeSteps == {1, UNIVERSE_UPDATE_COOLDOWN}

\* get_scanner_capacity, IB_MAX_SUBSCRIPTIONS being ibMax
GetScannerCapacityUnclamped(num_positions, ibMax) ==
    (ibMax - (num_positions + FUTURES_SLOTS)) - SCANNER_BUFFER

GetScannerCapacity(num_positions, ibMax) ==
    Max2(0, (ibMax - (num_positions + FUTURES_SLOTS)) - SCANNER_BUFFER)

\* new_set.symmetric_difference(self._last_universe_symbols)
SymmetricDifference(a, b) == (a \ b) \cup (b \ a)

\* the two early returns of update_universe
UniverseSkipped(new_set, lastSet, lastUpdate, t) ==
    \/ new_set = lastSet
    \/ /\ t - lastUpdate < UNIVERSE_UPDATE_COOLDOWN
       /\ Cardinality(SymmetricDifference(new_set, lastSet)) < MINOR_CHANGE

\* update_universe(symbols, position_symbols); list(set(new_symbols)) comes
\* in whatever order the set iterates in
UpdateUniverse ==
    /\ \E input \in SUBSET RawSymbols, position_symbols \in SUBSET UniversePositions :
          LET new_set == {Upper[x] : x \in input}
              skipped == UniverseSkipped(new_set, lastUniverseSymbols, lastUniverseUpdate, now)
              capacity == GetScannerCapacity(Cardinality(position_symbols),
                                             UniverseSubscriptions)
          IN  /\ \E new_symbols \in Orderings(new_set) :
                    LET position_list == SelectSeq(new_symbols, LAMBDA x : x \in position_symbols)
                        scanner_list == SelectSeq(new_symbols, LAMBDA x : x \notin position_symbols)
                        limited == IF Len(scanner_list) > capacity
                                   THEN SubSeq(scanner_list, 1, capacity) ELSE scanner_list
                    IN  universe' = IF skipped THEN universe ELSE position_list \o limited
              /\ lastUniverseSymbols' = IF skipped THEN lastUniverseSymbols
                                        ELSE SeqToSet(universe')
              /\ lastUniverseUpdate' = IF skipped THEN lastUniverseUpdate ELSE now
              /\ call' = [op |-> "update_universe", input |-> input,
                          positions |-> position_symbols, skipped |-> skipped,
                          capacity |-> capacity, pre |-> universe,
                          lastSet |-> lastUniverseSymbols, lastUpdate |-> lastUniverseUpdate]
    /\ UNCHANGED <<now, t0, subs, loopVars, positions, feedVars, faults, torn, ev, lastHistFetch,
                   quote, quoteAt, lastReq, advances, priced, history, window, mainVars, bars,
                   lastScanTime, alerts, writers>>

UniverseNext ==
    \/ UpdateUniverse
    \/ BusAdvance(UniverseTimeSteps, MaxUniverseAdvances)

UniverseSpec == Init /\ [][UniverseNext]_vars

(***************************************************************************)
(* The bus with its bar accumulators: one instrument, read with get_last   *)
(* and its open bar closed with _finalize_bar.                             *)
(***************************************************************************)
BarPrices == {5, NaN}

BarQuotes == {GoodQuote, ZeroQuote}

BarTimeSteps == {1, FALLBACK_COOLDOWN_SECONDS}

\* _finalize_bar(symbol, close_price)
FinalizeBarCall(U) ==
    /\ \E s \in U, close_price \in BarPrices :
          /\ bars' = [bars EXCEPT ![s] = FinalizeBar(@, close_price, BarHistoryLen)]
          /\ call' = [NoCall EXCEPT !.op = "finalize_bar", !.sym = s, !.px = close_price,
                                    !.pre = bars[s]]
    /\ UNCHANGED <<now, t0, subs, loopVars, positions, feedVars, faults, torn, ev, lastHistFetch,
                   quote, quoteAt, lastReq, advances, priced, history, window, mainVars,
                   lastScanTime, otherVars>>

BarNext ==
    \/ ProviderTick(BusUniverse, BarQuotes)
    \/ BusSubscribeCall(BusUniverse)
    \/ GetLastStep(BusUniverse, TRUE)
    \/ FinalizeBarCall(BusUniverse)
    \/ BusAdvance(BarTimeSteps, MaxBarAdvances)

BarSpec == BusInit /\ [][BarNext]_vars

(***************************************************************************)
(* Properties of the subscription manager (checked under Spec).  ev holds  *)
(* the call the last step made: its arguments, the record list before it   *)
(* (ev.pre) and what it returned.                                          *)
(***************************************************************************)
\* C1: whenever the scan-loop thread stands between two passes, the number of
\* records is at most the capacity, whatever the provider calls did.
CapacityInvariant ==
    (pc \in {"scan", "options", "cleanup", "sleep", "top"}
        \/ (pc = "futures" /\ todo = FUTURES_WATCHLIST))
    => Len(subs) <= Capacity

\* C2: a call of _subscribe (and the _make_room inside it) or of _cleanup_stale
\* removes no record that has priority PRIORITY_POSITION and whose symbol is in
\* the positions the pass read.
PositionInvincibility ==
    ev.op \in {"subscribe", "cleanup"} =>
        \A i \in 1..Len(ev.pre) :
            (ev.pre[i].priority = PRIORITY_POSITION /\ ev.pre[i].sym \in positions)
            => /\ HasSub(subs, ev.pre[i].sym)
               /\ RecOf(subs, ev.pre[i].sym).priority = PRIORITY_POSITION

\* _make_room evicted a record although the record of a held position had been
\* idle for longer
PositionInvincibilityWitness ==
    /\ ev.op = "subscribe"
    /\ ev.room = "evicted"
    /\ ~HasSub(subs, ev.victim)
    /\ \E i \in 1..Len(ev.pre) :
          /\ ev.pre[i].priority = PRIORITY_POSITION
          /\ ev.pre[i].sym \in positions
          /\ ev.pre[i].last_activity < RecOf(ev.pre, ev.victim).last_activity

\* C3: a call of _subscribe (and the _make_room inside it, for any required
\* priority) or of _cleanup_stale removes no record that has priority
\* PRIORITY_FUTURES and whose symbol is in FUTURES_WATCHLIST.
FixedWatchlistProtection ==
    ev.op \in {"subscribe", "cleanup"} =>
        \A i \in 1..Len(ev.pre) :
            (ev.pre[i].priority = PRIORITY_FUTURES
                /\ ev.pre[i].sym \in SeqToSet(FUTURES_WATCHLIST))
            => HasSub(subs, ev.pre[i].sym)

\* C4: when a call of _subscribe has removed a record, it has removed exactly
\* one; that record had a priority below the requested one, no record below the
\* requested priority had a lower priority, and none of the same priority had an
\* older last_activity.
EvictionTieBreak ==
    ev.op = "subscribe" =>
        LET gone == {i \in 1..Len(ev.pre) : ~HasSub(subs, ev.pre[i].sym)} IN
        \/ gone = {}
        \/ /\ Cardinality(gone) = 1
           /\ \A i \in gone :
                 /\ ev.pre[i].priority < ev.prio
                 /\ \A j \in 1..Len(ev.pre) :
                       ev.pre[j].priority < ev.prio =>
                          /\ ev.pre[i].priority <= ev.pre[j].priority
                          /\ (ev.pre[i].priority = ev.pre[j].priority
                                => ev.pre[i].last_activity <= ev.pre[j].last_activity)

\* the evicted record was more recently active than an evictable record of a
\* higher priority, and less recently than another record of its own priority
EvictionTieBreakWitness ==
    /\ ev.op = "subscribe"
    /\ \E i, j, k \in 1..Len(ev.pre) :
          /\ ~HasSub(subs, ev.pre[i].sym)
          /\ HasSub(subs, ev.pre[j].sym)
          /\ HasSub(subs, ev.pre[k].sym)
          /\ ev.pre[j].priority < ev.prio
          /\ ev.pre[j].priority > ev.pre[i].priority
          /\ ev.pre[j].last_activity < ev.pre[i].last_activity
          /\ ev.pre[k].priority = ev.pre[i].priority
          /\ ev.pre[k].last_activity > ev.pre[i].last_activity

\* C9: a call of _subscribe for a symbol without a record, made when the list
\* is at capacity and no record has a priority below the requested one, finds
\* _make_room returning False, returns False and leaves the list as it was.
AdmissionRefusal ==
    (/\ ev.op = "subscribe"
     /\ ~HasSub(ev.pre, ev.sym)
     /\ Len(ev.pre) >= Capacity
     /\ \A i \in 1..Len(ev.pre) : ev.pre[i].priority >= ev.prio)
    => /\ ev.room = "refused"
       /\ ev.ok = FALSE
       /\ subs = ev.pre

\* a position was refused because every slot is held by a position
AdmissionRefusalWitness ==
    /\ ev.op = "subscribe"
    /\ ev.prio = PRIORITY_POSITION
    /\ ~HasSub(ev.pre, ev.sym)
    /\ Len(ev.pre) = Capacity
    /\ \A i \in 1..Len(ev.pre) : ev.pre[i].priority = PRIORITY_POSITION
    /\ ev.ok = FALSE
    /\ subs = ev.pre

\* C10 as stated: with the list at capacity, holding position records and at
\* least two scanner records and nothing else, _subscribe of a new instrument at
\* PRIORITY_SCANNER ends with the list at capacity, the position records and the
\* new instrument present and the longest idle scanner record gone.
ScenarioEvictsIdleScanner ==
    (/\ ev.op = "subscribe"
     /\ ev.prio = PRIORITY_SCANNER
     /\ ~HasSub(ev.pre, ev.sym)
     /\ Len(ev.pre) = Capacity
     /\ \A i \in 1..Len(ev.pre) : ev.pre[i].priority \in {PRIORITY_POSITION, PRIORITY_SCANNER}
     /\ \E i \in 1..Len(ev.pre) : ev.pre[i].priority = PRIORITY_POSITION
     /\ \E i, j \in 1..Len(ev.pre) :
           i # j /\ ev.pre[i].priority = PRIORITY_SCANNER /\ ev.pre[j].priority = PRIORITY_SCANNER)
    => /\ Len(subs) = Capacity
       /\ HasSub(subs, ev.sym)
       /\ \A i \in 1..Len(ev.pre) :
             ev.pre[i].priority = PRIORITY_POSITION => HasSub(subs, ev.pre[i].sym)
       /\ \E i \in 1..Len(ev.pre) :
             /\ ev.pre[i].priority = PRIORITY_SCANNER
             /\ ~HasSub(subs, ev.pre[i].sym)
             /\ \A j \in 1..Len(ev.pre) :
                   ev.pre[j].priority = PRIORITY_SCANNER
                   => ev.pre[i].last_activity <= ev.pre[j].last_activity

\* C10, amended: in that situation _subscribe returns False, the new instrument
\* gets no record and every record stays as it was.
ScenarioRefusesScanner ==
    (/\ ev.op = "subscribe"
     /\ ev.prio = PRIORITY_SCANNER
     /\ ~HasSub(ev.pre, ev.sym)
     /\ Len(ev.pre) = Capacity
     /\ \A i \in 1..Len(ev.pre) : ev.pre[i].priority \in {PRIORITY_POSITION, PRIORITY_SCANNER}
     /\ \E i \in 1..Len(ev.pre) : ev.pre[i].priority = PRIORITY_POSITION
     /\ \E i, j \in 1..Len(ev.pre) :
           i # j /\ ev.pre[i].priority = PRIORITY_SCANNER /\ ev.pre[j].priority = PRIORITY_SCANNER)
    => /\ ev.ok = FALSE
       /\ ~HasSub(subs, ev.sym)
       /\ subs = ev.pre

\* records A (position), B and C (scanner), and D asked for at the scanner tier
ScenarioRefusesScannerWitness ==
    /\ ev.op = "subscribe"
    /\ ev.prio = PRIORITY_SCANNER
    /\ ev.sym = "D"
    /\ Len(ev.pre) = 3
    /\ SubSyms(ev.pre) = {"A", "B", "C"}
    /\ RecOf(ev.pre, "A").priority = PRIORITY_POSITION
    /\ RecOf(ev.pre, "B").priority = PRIORITY_SCANNER
    /\ RecOf(ev.pre, "C").priority = PRIORITY_SCANNER
    /\ RecOf(ev.pre, "B").last_activity # RecOf(ev.pre, "C").last_activity
    /\ SubSyms(subs) = {"A", "B", "C"}

\* C11: when _sync_positions comes to a position whose symbol already has a
\* record, the record has priority PRIORITY_POSITION afterwards and the number
\* of records is unchanged.
PromotionOnReconcile ==
    (pc = "positions" /\ ev.op = "touch")
    => /\ Len(subs) = Len(ev.pre)
       /\ RecOf(subs, ev.sym).priority = PRIORITY_POSITION

\* C12: when every position read by the pass has a record of priority
\* PRIORITY_POSITION, a step of _sync_positions leaves the symbols, their order,
\* priorities and timestamps as they were, and changes only last_activity of
\* the position it came to, which becomes the current time.
ReReconcileOnlyTouches ==
    (/\ pc = "positions"
     /\ ev.op \in {"touch", "subscribe"}
     /\ \A p \in positions :
           HasSub(ev.pre, p) /\ RecOf(ev.pre, p).priority = PRIORITY_POSITION)
    => /\ ev.op = "touch"
       /\ Len(subs) = Len(ev.pre)
       /\ \A i \in 1..Len(ev.pre) :
             /\ subs[i].sym = ev.pre[i].sym
             /\ subs[i].priority = ev.pre[i].priority
             /\ subs[i].timestamp = ev.pre[i].timestamp
             /\ subs[i].last_activity =
                   IF ev.pre[i].sym = ev.sym THEN now ELSE ev.pre[i].last_activity

\* a later iteration comes back to a position record next to records of other
\* tiers, with the list full, and its last_activity moves forward
ReReconcileOnlyTouchesWitness ==
    /\ pc = "positions"
    /\ ev.op = "touch"
    /\ loops >= 2
    /\ Len(ev.pre) = Capacity
    /\ \A p \in positions :
          HasSub(ev.pre, p) /\ RecOf(ev.pre, p).priority = PRIORITY_POSITION
    /\ \E i \in 1..Len(ev.pre) : ev.pre[i].priority = PRIORITY_SCANNER
    /\ RecOf(subs, ev.sym).last_activity > RecOf(ev.pre, ev.sym).last_activity

NoImmediateRemoval ==
    ev.op = "drop" =>
        \A i \in 1..Len(ev.pre) :
            ev.pre[i].priority = PRIORITY_SCANNER => HasSub(subs, ev.pre[i].sym)

\* C15: in an iteration of the scan loop the futures watchlist is begun only
\* when the loop over the positions is exhausted, the stock scanner only when
\* the loop over the watchlist is exhausted, and the positions only from the top
\* of the iteration; _subscribe is called with PRIORITY_POSITION only in the
\* positions pass, with PRIORITY_FUTURES only in the watchlist pass and with
\* PRIORITY_SCANNER only in the scanner pass.
OrderingWithinPass ==
    [][/\ (pc' = "positions" /\ pc # "positions") => pc = "top"
       /\ (pc' = "futures" /\ pc # "futures") => (pc = "positions" /\ todo = <<>>)
       /\ (pc' = "scan") => (pc = "futures" /\ todo = <<>>)
       /\ (pc' = "stocks" /\ pc # "stocks") => pc = "scan"
       /\ (ev'.op = "subscribe") =>
             /\ ev'.prio = PRIORITY_POSITION <=> pc = "positions"
             /\ ev'.prio = PRIORITY_FUTURES <=> pc = "futures"
             /\ ev'.prio = PRIORITY_SCANNER <=> pc = "stocks"]_vars

\* a scanner candidate is admitted in an iteration whose positions and
\* watchlist instrument have their records already
OrderingWithinPassWitness ==
    /\ pc = "stocks"
    /\ ev.op = "subscribe"
    /\ ev.prio = PRIORITY_SCANNER
    /\ ev.ok
    /\ positions # {}
    /\ \A p \in positions : HasSub(ev.pre, p)
    /\ \A i \in 1..Len(FUTURES_WATCHLIST) : HasSub(ev.pre, FUTURES_WATCHLIST[i])

\* C16: a record whose cancelMktData raised inside _unsubscribe, on an eviction,
\* on the scanner's removal or on the stale sweep, is gone from the list when
\* the call returns.
TeardownFailureRemovesRecord ==
    ev.op \in {"subscribe", "drop", "cleanup"} =>
        \A s \in ev.failed : ~HasSub(subs, s)

RecordChannelCorrespondence ==
    \A s \in Symbols : HasSub(subs, s) <=> channels[s] > 0

\* C19 (under ChannelSpec): the instruments with an open reqMktData request,
\* whoever opened it, are at most Capacity in number.
ChannelCeiling ==
    Cardinality({s \in Symbols : channels[s] > 0}) <= Capacity

\* C20: an instrument has an entry in MarketDataBus.tickers, and one in
\* MarketDataBus._subs, exactly when it has a record in _subscriptions.
TickRecordLifecycle ==
    \A s \in Symbols :
        /\ tickers[s].has <=> HasSub(subs, s)
        /\ s \in busSubs <=> HasSub(subs, s)

PositionsForceAdmitted ==
    (/\ pc = "futures"
     /\ todo = FUTURES_WATCHLIST
     /\ Cardinality(positions) <= Capacity
     /\ faults = 0)
    => \A p \in positions : HasSub(subs, p)

\* C31: a call of _subscribe that returns False, for a refusal or for a provider
\* error, leaves the records as they were before the call.
FailedAdmissionCostsNothing ==
    (ev.op = "subscribe" /\ ~ev.ok) => subs = ev.pre

\* the candidates the subscription loop of _run_stock_scanner has come to
Processed == currentScanner \ SeqToSet(todo)

\* the records the running stock-scanner pass has created
NewInPass == Len(subs) - (Capacity - available)

FreshPrimaryBypassesFallback ==
    [][(call'.op = "get_last" /\ call'.tradable /\ UsableQuote(quote[call'.sym])) =>
          /\ call'.px = PxChain(quote[call'.sym])
          /\ ~call'.needs
          /\ ~call'.fetched
          /\ lastHistFetch' = lastHistFetch
          /\ lastReq' = lastReq]_vars

\* such a read, of an instrument that has a cooldown timestamp from before
FreshPrimaryBypassesFallbackWitness ==
    /\ call.op = "get_last"
    /\ call.tradable
    /\ UsableQuote(quote[call.sym])
    /\ call.px = PxChain(quote[call.sym])
    /\ ~call.fetched
    /\ Truthy(lastHistFetch[call.sym])
    /\ lastHistFetch[call.sym] < now

\* a <= b of Python
PyLe(a, b) == a # NaN /\ b # NaN /\ ~PyGt(a, b)

\* the newest n entries of a sequence
Newest(all, n) == SubSeq(all, Max2(1, Len(all) - n + 1), Len(all))

\* C34 (under BarSpec): a get_last whose historical request raised or brought
\* no bars leaves the stored price, the price window and the bar accumulator
\* of the instrument as _live_tick left them and stamps the cooldown; and no
\* get_last made less than the cooldown after a request issues another one.
FailedFallbackLeavesTickState ==
    [][call'.op = "get_last" =>
          LET s == call'.sym
              lt == LiveTick(tickers, history, window, s, quote[s], now)
          IN  /\ (call'.fetched /\ call'.hist \in {"raise", "nobars"}) =>
                    /\ tickers'[s] = lt.tickers[s]
                    /\ history'[s] = lt.history[s]
                    /\ bars'[s] = IF lt.live = NoneVal THEN bars[s]
                                  ELSE UpdateBarData(bars[s], lt.live)
                    /\ lt.live = NoneVal =>
                          (tickers'[s].last = tickers[s].last /\ history' = history
                             /\ bars' = bars)
                    /\ lastHistFetch' = [lastHistFetch EXCEPT ![s] = now]
              /\ (lastReq[s] # NoneVal /\ now - lastReq[s] < FALLBACK_COOLDOWN_SECONDS) =>
                    (~call'.fetched /\ lastHistFetch' = lastHistFetch)]_vars

\* a read with the market closed, one second after a read whose request
\* failed: the window and the open bar hold the two live ticks and nothing
\* else, and there was no second request
FailedFallbackLeavesTickStateWitness ==
    /\ call.op = "get_last"
    /\ call.needs
    /\ ~call.fetched
    /\ call.px = 7
    /\ history[call.sym] = <<7, 7>>
    /\ bars[call.sym].volume = 2
    /\ bars[call.sym].high = 7
    /\ bars[call.sym].low = 7
    /\ lastReq[call.sym] = now - 1
    /\ lastHistFetch[call.sym] = lastReq[call.sym]

\* C35 (under BarSpec): after _finalize_bar(symbol, close_price) the four
\* histories are the former ones followed by the open bar's high, its low, the
\* given close and its tick count, cut to the newest BarHistoryLen entries, and
\* the open bar has high = low = close_price and no tick; an instrument
\* without bar state is left without.
CloseBarSemantics ==
    call.op = "finalize_bar" =>
        LET b == call.pre
            a == bars[call.sym]
        IN  IF ~b.has THEN a = NoBar
            ELSE /\ a.has
                 /\ a.highs = Newest(Append(b.highs, b.high), BarHistoryLen)
                 /\ a.lows = Newest(Append(b.lows, b.low), BarHistoryLen)
                 /\ a.closes = Newest(Append(b.closes, call.px), BarHistoryLen)
                 /\ a.volumes = Newest(Append(b.volumes, b.volume), BarHistoryLen)
                 /\ a.high = call.px
                 /\ a.low = call.px
                 /\ a.volume = 0

\* a bar of two ticks between 5 and 7 was closed onto full histories
CloseBarSemanticsWitness ==
    /\ call.op = "finalize_bar"
    /\ call.pre.has
    /\ Len(call.pre.closes) = BarHistoryLen
    /\ call.pre.volume = 2
    /\ call.pre.high = 7
    /\ call.pre.low = 5
    /\ call.px = 5
    /\ bars[call.sym].closes[1] # call.pre.closes[1]

\* C36 (under BarSpec): every bar state has low <= high in its open bar, a tick
\* count equal to the ticks recorded since the bar was opened, and four
\* histories of one length, at most BarHistoryLen.
BarStateInvariant ==
    \A s \in Symbols :
        bars[s].has =>
            /\ PyLe(bars[s].low, bars[s].high)
            /\ bars[s].volume = bars[s].ticks
            /\ Len(bars[s].highs) = Len(bars[s].lows)
            /\ Len(bars[s].lows) = Len(bars[s].closes)
            /\ Len(bars[s].closes) = Len(bars[s].volumes)
            /\ Len(bars[s].highs) <= BarHistoryLen

\* C37 (under RestartSpec): whatever the sequence of start() and stop() calls,
\* at most one thread runs _scan_loop.
SingleScanLoop == threads <= 1

\* C39 (under ScanSpec): whenever the coordinator is about to call
\* ProfessionalScanner.scan, the time since the scan before is at least the
\* scanner's interval, so that the rate limit lets the scan run.
ScheduledScansRun == pc = "scan" => ~RateLimited(now, lastScanTime)

\* C38 (under AlertSpec): whenever no component is inside _alert, every alert
\* a component has raised is in STATE.alerts.
NoLostAlerts ==
    (\A c \in Components : writers[c].pc = "idle") =>
        \A c \in Components : \A k \in 1..writers[c].id :
            \E i \in 1..Len(alerts) : alerts[i] = [by |-> c, id |-> k]

\* C40 (under UniverseSpec): after a call of update_universe that was not
\* skipped the universe holds every input symbol that is a position and at
\* most max(0, IB_MAX_SUBSCRIPTIONS - positions - FUTURES_SLOTS - 5) symbols
\* that are not, the capacity being never negative; a call is skipped exactly
\* when the symbol set is the one of the last update, or differs from it by
\* fewer than 3 symbols and the last update is less than 10 s old, and a
\* skipped call leaves the universe as it was.
CapacityAwareUniverse ==
    call.op = "update_universe" =>
        /\ call.capacity >= 0
        /\ call.skipped <=>
              \/ {Upper[x] : x \in call.input} = call.lastSet
              \/ /\ now - call.lastUpdate < UNIVERSE_UPDATE_COOLDOWN
                 /\ Cardinality(({Upper[x] : x \in call.input} \ call.lastSet)
                                  \cup (call.lastSet \ {Upper[x] : x \in call.input}))
                      < MINOR_CHANGE
        /\ IF call.skipped
           THEN /\ universe = call.pre
                /\ lastUniverseSymbols = call.lastSet
           ELSE /\ \A x \in call.input :
                      Upper[x] \in call.positions => Upper[x] \in SeqToSet(universe)
                /\ Cardinality({i \in 1..Len(universe) : universe[i] \notin call.positions})
                      <= Max2(0, UniverseSubscriptions - Cardinality(call.positions)
                                   - FUTURES_SLOTS - SCANNER_BUFFER)
                /\ SeqToSet(universe) \subseteq {Upper[x] : x \in call.input}

\* a call with one position among three symbols, written in lower case by the
\* caller: the position is in the universe and one of the two others was cut
CapacityAwareUniverseWitness ==
    /\ call.op = "update_universe"
    /\ ~call.skipped
    /\ call.input = {"a", "B", "C"}
    /\ call.positions = {"A"}
    /\ call.capacity = 1
    /\ Len(universe) = 2
    /\ universe[1] = "A"
    /\ call.pre # <<>>

\* C24 (under StatusSpec): no step of get_status changes the records or any
\* other field of the manager, and the dict it returns has total equal to the
\* number of records, available equal to the capacity less total, and the four
\* tier counts adding up to total.
StatusSnapshot ==
    /\ [](status.pc = "done" =>
             /\ status.total = Len(subs)
             /\ status.available = Capacity - status.total
             /\ status.breakdown.positions + status.breakdown.futures
                  + status.breakdown.options + status.breakdown.scanner = status.total)
    /\ [][status' # status => UNCHANGED <<subs, loopVars, positions, feedVars>>]_vars

\* C25 (under StatusSpec): while get_status iterates over _subscriptions the
\* scan-loop thread adds no record, removes none and changes no priority, and
\* the iteration never fails on a map whose size changed under it.
SafeInterleaving ==
    /\ [](status.pc # "raised")
    /\ [][status.pc = "iterating" => Entries(subs') = Entries(subs)]_vars

NoIndefiniteBlocking ==
    (pc \in {"positions", "futures", "scan", "stocks", "options", "cleanup"}) ~> (pc = "sleep")

\* C28 (under LifeSpec): when the shutdown path has completed, cancelMktData
\* has been called, since it began, for every instrument that had a record
\* when it began.
CleanShutdownClosesChannels ==
    shutdown = "done" => atStop \subseteq torn

(***************************************************************************)
(* Properties of the market-data bus.  call holds the last call of         *)
(* get_last: its instrument, the clock (call.at), when reqHistoricalData   *)
(* had last been issued for the instrument before it (call.prevReq), when  *)
(* the provider had last updated the Ticker (call.primaryAt), the price    *)
(* _live_tick read (call.live) and what get_last did and returned.         *)
(***************************************************************************)
\* C5 (under PairSpec): get_last issues reqHistoricalData for an instrument
\* only if none was issued for that instrument in the FALLBACK_COOLDOWN_SECONDS
\* before, whatever the earlier request ended in; and when the fallback is
\* needed and the instrument's own last request is that old or missing, the
\* request is issued whatever was requested for other instruments.
FallbackRateLimit ==
    call.op = "get_last" =>
        /\ (call.fetched /\ call.prevReq # NoneVal)
              => call.at - call.prevReq >= FALLBACK_COOLDOWN_SECONDS
        /\ (call.needs /\ (call.prevReq = NoneVal
                             \/ call.at - call.prevReq >= FALLBACK_COOLDOWN_SECONDS))
              => call.fetched

\* a second request for one instrument, a cooldown after its first, while
\* another instrument is inside its own cooldown
FallbackRateLimitWitness ==
    /\ call.op = "get_last"
    /\ call.fetched
    /\ call.prevReq # NoneVal
    /\ \E o \in PairUniverse \ {call.sym} :
          /\ lastReq[o] # NoneVal
          /\ call.at - lastReq[o] < FALLBACK_COOLDOWN_SECONDS

\* C6 (under BusSpec): get_last called in a tradable phase for an instrument
\* whose Ticker the provider last updated more than FALLBACK_TRIGGER_SECONDS
\* before the call, outside the instrument's cooldown, issues the historical
\* request.
AgeTriggeredFallback ==
    (/\ call.op = "get_last"
     /\ Phase(call.at) # "closed"
     /\ call.primaryAt # NoneVal
     /\ call.at - call.primaryAt > FALLBACK_TRIGGER_SECONDS
     /\ (call.prevReq = NoneVal \/ call.at - call.prevReq >= FALLBACK_COOLDOWN_SECONDS))
    => call.fetched

\* C7 (under BusSpec): get_last called in the closed phase takes the fallback
\* path, and issues the historical request exactly when the instrument is
\* outside its cooldown.
ClosedPhaseFallback ==
    (call.op = "get_last" /\ Phase(call.at) = "closed")
    => /\ call.needs
       /\ call.fetched <=> (call.prevReq = NoneVal
                              \/ call.at - call.prevReq >= FALLBACK_COOLDOWN_SECONDS)

\* on the weekend, a price the provider delivered at the very instant of the
\* call still leads to the historical request
ClosedPhaseFallbackWitness ==
    /\ call.op = "get_last"
    /\ Phase(call.at) = "closed"
    /\ call.primaryAt = call.at
    /\ call.live = GoodQuote.last
    /\ call.fetched

FinitePricesOnly ==
    \A s \in Symbols :
        /\ tickers[s].last \notin {NaN, Inf}
        /\ \A i \in 1..Len(history[s]) : history[s][i] \notin {NaN, Inf}

\* C22 (under BusSpec): no history window holds more prices than the window
\* length; after a call of get_last the window of its instrument is the window
\* before the call followed by the prices the call recorded (the live price,
\* then the close of the historical bar), cut to its newest `window` prices.
BoundedWindow ==
    /\ \A s \in Symbols : Len(history[s]) <= window
    /\ call.op = "get_last" =>
          LET added == (IF call.live # NoneVal THEN <<call.live>> ELSE <<>>)
                       \o (IF call.hist = "bars" THEN <<tickers[call.sym].last>> ELSE <<>>)
              all == call.pre \o added
          IN  history[call.sym] = SubSeq(all, Max2(1, Len(all) - window + 1), Len(all))

\* one price was recorded into a full window of two different prices: the older
\* one is gone and the newer one has moved to the front
BoundedWindowWitness ==
    /\ call.op = "get_last"
    /\ window >= 2
    /\ Len(call.pre) = window
    /\ call.pre[1] # call.pre[2]
    /\ call.live # NoneVal
    /\ call.hist # "bars"
    /\ call.live # call.pre[window]
    /\ history[call.sym] = Tail(call.pre) \o <<call.live>>

\* C23 (under PhaseSpec): is_market_hours called at an instant returns one of
\* the four phases: closed on Saturday and Sunday at any time of day; on the
\* other days pre from the premarket start up to the regular start, regular
\* from the regular start up to the regular end, after from the regular end up
\* to the after-hours end, and closed at any other time; the flag it returns is
\* true exactly for pre, regular and after.
MarketPhaseFunction ==
    call.op = "is_market_hours" =>
        LET day  == (call.at \div 86400) % 7
            secs == call.at - (call.at \div 86400) * 86400
            in(a, b) == TimeOfDay(a) <= secs /\ secs < TimeOfDay(b)
        IN  /\ call.phase \in {"pre", "regular", "after", "closed"}
            /\ day \in {5, 6} => call.phase = "closed"
            /\ day \in 0..4 =>
                  /\ call.phase = "pre" <=> in(PREMARKET_START, REGULAR_START)
                  /\ call.phase = "regular" <=> in(REGULAR_START, REGULAR_END)
                  /\ call.phase = "after" <=> in(REGULAR_END, AFTERHOURS_END)
                  /\ call.phase = "closed" <=>
                        (secs < TimeOfDay(PREMARKET_START) \/ secs >= TimeOfDay(AFTERHOURS_END))
            /\ call.tradable <=> call.phase \in {"pre", "regular", "after"}

\* Saturday at the instant the regular session would begin: closed, not tradable
MarketPhaseFunctionWitness ==
    /\ call.op = "is_market_hours"
    /\ call.at = 5 * 86400 + TimeOfDay(REGULAR_START)
    /\ call.phase = "closed"
    /\ ~call.tradable


=============================================================================
